---- MODULE Spec2Model ----
(***************************************************************************)
(* Model of src/generate_poem_images.py: the checksum store, the backoff   *)
(* policy, the generation client (generate_image_from_prompt) and the      *)
(* batch driver (process_metadata_files), run one or more times over a     *)
(* file system of metadata files, output images and checksum sidecars.     *)
(*                                                                         *)
(* Time is counted in tenths of a second, so that the jitter factor        *)
(* random.uniform(0.8, 1.2) is the integer range 8..12 applied to a delay  *)
(* in seconds.                                                             *)
(***************************************************************************)
EXTENDS Integers, Sequences, FiniteSets, TLC

(***************************************************************************)
(* Program constants (lines 58-61) and the bounds of the model.            *)
(***************************************************************************)
MAX_RETRIES == 5
INITIAL_RETRY_DELAY == 2
MAX_RETRY_DELAY == 60
BASE_DELAY_BETWEEN_CALLS == 1
\* random.uniform(0.8, 1.2), in tenths (line 99)
JitterLow == 8
JitterHigh == 12
\* random.uniform(1, 3), in seconds (line 297)
PauseLow == 1
PauseHigh == 3

\* the largest number of entries (metadata files, and folders holding none)
\* in the file system
MaxFiles == 2
\* the number of times the script is run over the same file system
MaxRuns == 2
\* the attempt numbers exponential_backoff is called with on its own: 0 .. MaxAttempt
MaxAttempt == 24

(***************************************************************************)
(* The file system.  A metadata file <folder>/<base>.metadata.json is the  *)
(* pair <<folder, base>>; its output image <folder>/<base>.png is named by *)
(* the same pair (lines 251-252), and its checksum sidecar                 *)
(* .image_checksums/<base>.png.md5 by the base name alone (lines 74, 90).  *)
(* Base names hold no further ".metadata.json", so that two metadata files *)
(* of one folder never share an output path.                               *)
(***************************************************************************)
CanonicalFolder == "poems"
\* f"{i}/poems" for i in range(1, 7), cut to the first two candidates
NumberedFolders == <<"1/poems", "2/poems">>
AllFolders == {CanonicalFolder} \cup {NumberedFolders[i] : i \in DOMAIN NumberedFolders}
Bases == {"a", "b", "c"}
\* the metadata files the file system may hold: the canonical folder may
\* hold every base name, a numbered folder only the first
Slots == ({CanonicalFolder} \X Bases)
           \cup {<<NumberedFolders[i], "a">> : i \in DOMAIN NumberedFolders}

Prompts == {"p1", "p2"}
\* what json.load and the 'image_prompt' lookup make of a metadata file
Contents == [kind : {"prompt"}, prompt : Prompts]
              \cup {[kind |-> "noprompt", prompt |-> ""],
                    [kind |-> "invalid", prompt |-> ""]}

Absent == "absent"

Min(a, b) == IF a < b THEN a ELSE b

RECURSIVE Pow2(_)
Pow2(n) == IF n = 0 THEN 1 ELSE 2 * Pow2(n - 1)

(***************************************************************************)
(* Checksum store (lines 67-93).  hashlib.md5(...).hexdigest() is a table  *)
(* from prompts to digests; a digest holds no white space.  A sidecar file *)
(* holds a sequence of tokens: a digest and white space ("\n").            *)
(***************************************************************************)
get_prompt_checksum(prompt) ==
    CASE prompt = "p1" -> "d41d"
      [] prompt = "p2" -> "9e10"
      [] OTHER -> "0000"

\* str.strip(): drops leading and trailing white space
RECURSIVE StripLeft(_)
StripLeft(s) == IF s # <<>> /\ Head(s) = "\n" THEN StripLeft(Tail(s)) ELSE s
RECURSIVE StripRight(_)
StripRight(s) ==
    IF s # <<>> /\ s[Len(s)] = "\n" THEN StripRight(SubSeq(s, 1, Len(s) - 1)) ELSE s
Strip(s) == StripRight(StripLeft(s))

\* a sidecar file: whether it exists, and the text it holds
NoSidecar == [exists |-> FALSE, text |-> <<>>]
SidecarWith(text) == [exists |-> TRUE, text |-> text]

\* os.path.join(CHECKSUM_DIR, f"{os.path.basename(output_path)}.md5")
checksum_file(output_path) == output_path[2]

is_prompt_processed(store, prompt, output_path) ==
    LET checksum == get_prompt_checksum(prompt)
        file == checksum_file(output_path)
    IN  IF ~store[file].exists
        THEN FALSE
        ELSE Strip(store[file].text) = <<checksum>>

\* a store that fingerprints the name of the output, not the prompt
mark_path_processed(store, prompt, output_path) ==
    [store EXCEPT ![checksum_file(output_path)] =
                      SidecarWith(<<get_prompt_checksum(output_path[2])>>)]

\* a store that opens the sidecar to append
mark_prompt_appended(store, prompt, output_path) ==
    [store EXCEPT ![checksum_file(output_path)] =
                      SidecarWith(store[checksum_file(output_path)].text
                                    \o <<get_prompt_checksum(prompt)>>)]

\* the sidecar store after open(checksum_file, 'w') and f.write(checksum)
mark_prompt_processed(store, prompt, output_path) ==
    [store EXCEPT ![checksum_file(output_path)] =
                      SidecarWith(<<get_prompt_checksum(prompt)>>)]

(***************************************************************************)
(* Backoff policy (lines 95-100); jitter in tenths, result in tenths of a  *)
(* second.                                                                 *)
(***************************************************************************)
\* a backoff without its ceiling
UncappedDelay(retry_count) == INITIAL_RETRY_DELAY * Pow2(retry_count)

UnjitteredDelay(retry_count) ==
    Min(MAX_RETRY_DELAY, INITIAL_RETRY_DELAY * Pow2(retry_count))

\* a backoff that grows by a step, not by a factor
linear_backoff(retry_count, jitter) ==
    Min(MAX_RETRY_DELAY, INITIAL_RETRY_DELAY * retry_count) * jitter

exponential_backoff(retry_count, jitter) == UnjitteredDelay(retry_count) * jitter

\* the jitter factors the model draws: the two ends of the range
Jitters == {JitterLow, JitterHigh}

(***************************************************************************)
(* The remote service (lines 175-181) answers a call with a response, a    *)
(* sequence of parts, or raises an error with a message.  A part is text   *)
(* or inline data; inline data is an image PIL can decode or junk it       *)
(* cannot.  A message is the set of phrases it holds, in the case the      *)
(* service wrote them.                                                     *)
(***************************************************************************)
ImageData == {"img1", "img2"}
PartKinds == {"text", "junk"} \cup ImageData

\* the responses the service gives in this model
Responses == {<<>>, <<"text">>, <<"junk">>, <<"img1">>, <<"text", "img2">>,
              <<"junk", "img1">>, <<"img1", "img2">>, <<"img2", "junk">>}

\* the messages of the errors it raises
ErrorMessages == {{"429"}, {"Quota", "rate limit"},
                  {"Too Many Requests", "RESOURCE EXHAUSTED"},
                  {"503"}, {"invalid argument", "Internal Server Error"},
                  {"invalid argument"}}
\* str(e) of the IndexError that response.candidates[0] raises on a response
\* without candidates
NoCandidatesMessage == {"list index out of range"}

Response(parts) == [kind |-> "response", parts |-> parts, message |-> {}]
Raised(message) == [kind |-> "error", parts |-> <<>>, message |-> message]
NoCandidates == [kind |-> "nocandidates", parts |-> <<>>, message |-> {}]
NoReply == [kind |-> "none", parts |-> <<>>, message |-> {}]

Replies == {Response(ps) : ps \in Responses}
             \cup {Raised(m) : m \in ErrorMessages}
             \cup {NoCandidates}

\* str.lower() of one phrase
Lower(p) ==
    CASE p = "Quota" -> "quota"
      [] p = "Too Many Requests" -> "too many requests"
      [] p = "RESOURCE EXHAUSTED" -> "resource exhausted"
      [] p = "Internal Server Error" -> "internal server error"
      [] OTHER -> p

\* error_message = str(e).lower()
error_message(message) == {Lower(p) : p \in message}

\* line 204
IsRateLimit(msg) ==
    \E p \in {"rate limit", "quota", "429", "too many requests", "resource exhausted"} :
        p \in msg

\* line 210
IsServerError(msg) == "internal server error" \in msg \/ "503" \in msg

\* a handler that takes every error it does not know for a server error
ErrorClassRetryAll(message) ==
    IF IsRateLimit(error_message(message)) THEN "rate_limit" ELSE "server"

\* the class the handler of lines 199-220 puts a raised message in
ErrorClass(message) ==
    LET msg == error_message(message)
    IN  IF IsRateLimit(msg) THEN "rate_limit"
        ELSE IF IsServerError(msg) THEN "server"
        ELSE "other"

None == "None"

\* hasattr(part, 'inline_data') and part.inline_data is not None
HasInlineData(part) == part # "text"

\* Image.open(BytesIO(data)) succeeds
Decodable(part) == part \in ImageData

\* image.save(img_byte_arr, format=image.format or 'PNG'); getvalue()
Reencode(data) ==
    CASE data = "img1" -> "png-of-img1"
      [] data = "img2" -> "png-of-img2"
      [] OTHER -> "png"

\* a scan that hands back the inline data as it came
RECURSIVE ScanPartsRaw(_)
ScanPartsRaw(parts) ==
    IF parts = <<>> THEN None
    ELSE IF HasInlineData(Head(parts)) /\ Decodable(Head(parts))
         THEN Head(parts)
         ELSE ScanPartsRaw(Tail(parts))

\* a scan that keeps the last image it could decode
RECURSIVE ScanPartsLast(_)
ScanPartsLast(parts) ==
    IF parts = <<>> THEN None
    ELSE IF ScanPartsLast(Tail(parts)) # None
         THEN ScanPartsLast(Tail(parts))
         ELSE IF HasInlineData(Head(parts)) /\ Decodable(Head(parts))
              THEN Reencode(Head(parts))
              ELSE None

\* lines 184-197: the scan of the parts of a response
RECURSIVE ScanParts(_)
ScanParts(parts) ==
    IF parts = <<>> THEN None
    ELSE IF HasInlineData(Head(parts)) /\ Decodable(Head(parts))
         THEN Reencode(Head(parts))
         ELSE ScanParts(Tail(parts))

\* "if image_data:" (line 275)
Truthy(data) == data # None /\ data # ""

(***************************************************************************)
(* State.                                                                  *)
(***************************************************************************)
VARIABLES
    \* the file system
    dirs,            \* the source directories that exist
    meta,            \* metadata file -> what parsing it gives
    out,             \* output path -> the bytes of the file, or Absent
    sidecar,         \* base name -> the checksum sidecar file
    \* process_metadata_files
    run,             \* the number of this run of the script
    pc,              \* the position of the single thread of control
    poem_folders,    \* line 227-231
    folder_idx,      \* the index in poem_folders of the folder of line 246
    metadata_files,  \* the files of line 248 that line 250 has yet to yield
    total_files, processed, failures, skipped,
    cur,             \* metadata_file of line 250, or NoFile
    image_prompt, image_data,
    \* generate_image_from_prompt
    retry_count,
    reply,           \* what the remote call of line 175 gave
    \* history, read by the properties only
    calls,           \* remote calls issued by this call of the client
    only429,         \* every error this call has handled held "429"
    outcome,         \* how the client's call, then the file, ended
    slept,           \* the length of the last sleep, in tenths
    returned,        \* what the function called on its own last returned
    out_before,      \* out when this run began
    created,         \* output paths this run opened for writing
    results          \* metadata file this run is through with -> how it ended

fs == <<dirs, meta, out, sidecar>>
driver == <<poem_folders, folder_idx, metadata_files, total_files,
            processed, failures, skipped, cur, image_prompt, image_data>>
client == <<retry_count, reply, calls, only429, outcome, slept>>
hist == <<out_before, created, results>>
vars == <<fs, run, pc, driver, client, returned, hist>>

NoFile == <<"", "">>
NoResults == [f \in {} |-> "none"]

\* glob.glob(f"{folder}/*.metadata.json")
Glob(folder) == {f \in DOMAIN meta : f[1] = folder}

\* f"{folder}/{base_name}.png", lines 251-252
output_image_path(metadata_file) == metadata_file

\* the state of the script when it starts
Fresh ==
    /\ pc = "start"
    /\ poem_folders = <<>>
    /\ folder_idx = 0
    /\ metadata_files = {}
    /\ total_files = 0
    /\ processed = 0
    /\ failures = 0
    /\ skipped = 0
    /\ cur = NoFile
    /\ image_prompt = ""
    /\ image_data = None
    /\ retry_count = 0
    /\ reply = NoReply
    /\ calls = 0
    /\ only429 = TRUE
    /\ outcome = "none"
    /\ slept = 0
    /\ created = {}
    /\ results = NoResults

\* the texts a sidecar left by an earlier run or by hand may hold
OldSidecars == {NoSidecar, SidecarWith(<<get_prompt_checksum("p1"), "\n">>)}

\* the prompt a metadata file holds, when it holds one
PromptOf(f) == IF f \in {<<CanonicalFolder, "b">>, <<NumberedFolders[1], "a">>}
               THEN "p2" ELSE "p1"

ContentsOf(f) == {c \in Contents : c.kind = "prompt" => c.prompt = PromptOf(f)}

\* a file system of the metadata files S and the further folders E.  Any of
\* the outputs may be there already (the metadata of such a file, which the
\* script never opens, holds a prompt), and so may the sidecar of base
\* name "a": it matches the prompt of some files named a and not of others
FileSystemOf(S, E) ==
    /\ dirs = {f[1] : f \in S} \cup E
    /\ \E m \in [S -> Contents] :
          /\ \A f \in S : m[f] \in ContentsOf(f)
          /\ meta = m
    /\ \E had \in SUBSET S :
          /\ \A f \in had : meta[f].kind = "prompt"
          /\ out = [f \in Slots |-> IF f \in had THEN "old" ELSE Absent]
    /\ \E s \in [Bases -> OldSidecars] :
          /\ \A b \in Bases : s[b].exists => b = "a" /\ \E f \in S : f[2] = b
          /\ sidecar = s

\* up to MaxFiles entries, anywhere
InitGeneral ==
    \E S \in SUBSET Slots, E \in SUBSET AllFolders :
        /\ \A d \in E : \A f \in S : f[1] # d
        /\ Cardinality(S) + Cardinality(E) <= MaxFiles
        /\ FileSystemOf(S, E)

\* the canonical folder with every base name: one file without its prompt
\* field, one whose output is there already, one to generate
InitThree ==
    /\ FileSystemOf({CanonicalFolder} \X Bases, {})
    /\ \E f \in DOMAIN meta : meta[f].kind = "noprompt" /\ out[f] = Absent
    /\ \E f \in DOMAIN meta : out[f] # Absent
    /\ \E f \in DOMAIN meta : meta[f].kind = "prompt" /\ out[f] = Absent

Init ==
    /\ InitGeneral \/ InitThree
    /\ run = 1
    /\ returned = None
    /\ out_before = out
    /\ Fresh

(***************************************************************************)
(* process_metadata_files: discovery, lines 227-244.                       *)
(***************************************************************************)
\* line 227
Numbered(ds) == SelectSeq(NumberedFolders, LAMBDA d : d \in ds)

\* a discovery that adds the canonical folder to the numbered ones
DiscoveredAll(ds) ==
    (IF CanonicalFolder \in ds THEN <<CanonicalFolder>> ELSE <<>>) \o Numbered(ds)

\* lines 227-231
Discovered(ds) == IF CanonicalFolder \in ds THEN <<CanonicalFolder>> ELSE Numbered(ds)

\* line 239
RECURSIVE SumFiles(_)
SumFiles(folders) ==
    IF folders = <<>> THEN 0
    ELSE Cardinality(Glob(Head(folders))) + SumFiles(Tail(folders))

Discover ==
    /\ pc = "start"
    /\ poem_folders' = Discovered(dirs)
    /\ IF poem_folders' = <<>>
       THEN /\ pc' = "done"
            /\ UNCHANGED total_files
       ELSE /\ pc' = "folders"
            /\ total_files' = SumFiles(poem_folders')
    /\ UNCHANGED <<fs, run, returned, folder_idx, metadata_files, processed, failures,
                   skipped, cur, image_prompt, image_data, client, hist>>

\* line 246-248: the next folder and its metadata files
NextFolder ==
    /\ pc = "folders"
    /\ folder_idx < Len(poem_folders)
    /\ folder_idx' = folder_idx + 1
    /\ metadata_files' = Glob(poem_folders[folder_idx'])
    /\ pc' = "files"
    /\ UNCHANGED <<fs, run, returned, poem_folders, total_files, processed, failures,
                   skipped, cur, image_prompt, image_data, client, hist>>

\* line 299
Return ==
    /\ pc = "folders"
    /\ folder_idx >= Len(poem_folders)
    /\ pc' = "done"
    /\ UNCHANGED <<fs, run, returned, driver, client, hist>>

\* line 250-252: the next file, in whatever order glob gave them
NextFile ==
    /\ pc = "files"
    /\ metadata_files # {}
    /\ \E f \in metadata_files :
          /\ cur' = f
          /\ metadata_files' = metadata_files \ {f}
    /\ pc' = "check"
    /\ slept' = 0
    /\ UNCHANGED <<fs, run, returned, poem_folders, folder_idx, total_files, processed,
                   failures, skipped, image_prompt, image_data,
                   retry_count, reply, calls, only429, outcome, hist>>

\* the inner loop of line 250 is over
FolderDone ==
    /\ pc = "files"
    /\ metadata_files = {}
    /\ pc' = "folders"
    /\ slept' = 0
    /\ UNCHANGED <<fs, run, returned, driver, retry_count, reply, calls, only429, outcome, hist>>

\* a skip test that also wants a checksum sidecar
ShouldSkipIfMarked(output_path) ==
    out[output_path] # Absent /\ sidecar[checksum_file(output_path)].exists

\* a skip test that a checksum sidecar alone satisfies
ShouldSkipOrMarked(output_path) ==
    out[output_path] # Absent \/ sidecar[checksum_file(output_path)].exists

\* line 255
ShouldSkip(output_path) == out[output_path] # Absent

\* the file is through: its result is on record
Record(how) == results' = [f \in DOMAIN results \cup {cur} |->
                              IF f = cur THEN how ELSE results[f]]

\* a skip that leaves the file out of the processed count
SkipExistingUncounted ==
    /\ pc = "check"
    /\ ShouldSkip(output_image_path(cur))
    /\ skipped' = skipped + 1
    /\ Record("skipped")
    /\ pc' = "files"
    /\ cur' = NoFile
    /\ UNCHANGED <<fs, run, returned, poem_folders, folder_idx, metadata_files, total_files,
                   processed, failures, image_prompt, image_data, client,
                   out_before, created>>

\* lines 255-259
SkipExisting ==
    /\ pc = "check"
    /\ ShouldSkip(output_image_path(cur))
    /\ skipped' = skipped + 1
    /\ processed' = processed + 1
    /\ Record("skipped")
    /\ pc' = "files"
    /\ cur' = NoFile
    /\ UNCHANGED <<fs, run, returned, poem_folders, folder_idx, metadata_files, total_files,
                   failures, image_prompt, image_data, client,
                   out_before, created>>

NotExisting ==
    /\ pc = "check"
    /\ ~ShouldSkip(output_image_path(cur))
    /\ pc' = "read"
    /\ UNCHANGED <<fs, run, returned, driver, client, hist>>

\* a driver that warns of a missing prompt and does not count the failure
ReadMetadataSilent ==
    /\ pc = "read"
    /\ \/ /\ meta[cur].kind = "prompt"
          /\ image_prompt' = meta[cur].prompt
          /\ pc' = "loop"
          /\ UNCHANGED <<failures, outcome>>
       \/ /\ meta[cur].kind = "noprompt"
          /\ outcome' = "noprompt"
          /\ pc' = "count"
          /\ UNCHANGED <<failures, image_prompt>>
       \/ /\ meta[cur].kind = "invalid"
          /\ failures' = failures + 1
          /\ outcome' = "invalid"
          /\ pc' = "count"
          /\ UNCHANGED image_prompt
    /\ UNCHANGED <<fs, run, returned, poem_folders, folder_idx, metadata_files, total_files,
                   processed, skipped, cur, image_data,
                   retry_count, reply, calls, only429, slept, hist>>

\* lines 262-273 and 286-291: read the metadata, call the client or fail
ReadMetadata ==
    /\ pc = "read"
    /\ \/ /\ meta[cur].kind = "prompt"
          /\ image_prompt' = meta[cur].prompt
          /\ pc' = "loop"
          /\ UNCHANGED <<failures, outcome>>
       \/ /\ meta[cur].kind = "noprompt"
          /\ failures' = failures + 1
          /\ outcome' = "noprompt"
          /\ pc' = "count"
          /\ UNCHANGED image_prompt
       \/ /\ meta[cur].kind = "invalid"
          /\ failures' = failures + 1
          /\ outcome' = "invalid"
          /\ pc' = "count"
          /\ UNCHANGED image_prompt
    /\ UNCHANGED <<fs, run, returned, poem_folders, folder_idx, metadata_files, total_files,
                   processed, skipped, cur, image_data,
                   retry_count, reply, calls, only429, slept, hist>>

(***************************************************************************)
(* generate_image_from_prompt, lines 159-222.                              *)
(***************************************************************************)
\* the call returns data to line 273: the response is dropped, and what the
\* call ended with is kept for the properties
ReturnFromClient(data, how) ==
    /\ image_data' = data
    /\ outcome' = how
    /\ pc' = "got"
    /\ reply' = NoReply
    /\ slept' = 0

\* a client that sleeps before a retry only
LoopTestNoThrottle ==
    /\ pc = "loop"
    /\ IF retry_count < MAX_RETRIES
       THEN /\ IF retry_count > 0
               THEN \E jitter \in Jitters :
                       slept' = exponential_backoff(retry_count, jitter)
               ELSE slept' = 0
            /\ pc' = "call"
            /\ UNCHANGED <<image_data, outcome, reply>>
       ELSE ReturnFromClient(None, "exhausted")
    /\ UNCHANGED <<fs, run, returned, poem_folders, folder_idx, metadata_files, total_files,
                   processed, failures, skipped, cur, image_prompt,
                   retry_count, calls, only429, hist>>

\* lines 163-172 and 222: the loop test, and the sleep before the call
LoopTest ==
    /\ pc = "loop"
    /\ IF retry_count < MAX_RETRIES
       THEN /\ IF retry_count > 0
               THEN \E jitter \in Jitters :
                       slept' = exponential_backoff(retry_count, jitter)
               ELSE slept' = BASE_DELAY_BETWEEN_CALLS * 10
            /\ pc' = "call"
            /\ UNCHANGED <<image_data, outcome, reply>>
       ELSE ReturnFromClient(None, "exhausted")
    /\ UNCHANGED <<fs, run, returned, poem_folders, folder_idx, metadata_files, total_files,
                   processed, failures, skipped, cur, image_prompt,
                   retry_count, calls, only429, hist>>

\* lines 175-181: the remote call and whatever the service answers
RemoteCall ==
    /\ pc = "call"
    /\ reply' \in Replies
    /\ calls' = calls + 1
    /\ pc' = "reply"
    /\ UNCHANGED <<fs, run, returned, driver, retry_count, only429, outcome, slept, hist>>

\* the message of the exception the handler of line 199 catches
Caught(r) == IF r.kind = "nocandidates" THEN NoCandidatesMessage ELSE r.message

\* a handler that forgets to count the attempt
NotIncremented(n) == n

\* lines 205 and 212
Incremented(n) == n + 1

\* lines 207 and 214
Exhausted(n) == n >= MAX_RETRIES

\* lines 205-209 and 212-216
RetryOrGiveUp(class) ==
    /\ retry_count' = Incremented(retry_count)
    /\ IF Exhausted(retry_count')
       THEN ReturnFromClient(None, class)
       ELSE /\ pc' = "loop"
            /\ UNCHANGED <<image_data, outcome, reply, slept>>

\* a client that takes a response without an image for a transient error
HandleResponseRetry ==
    /\ pc = "reply"
    /\ reply.kind = "response"
    /\ IF ScanParts(reply.parts) = None
       THEN RetryOrGiveUp("server")
       ELSE /\ ReturnFromClient(ScanParts(reply.parts), "image")
            /\ UNCHANGED retry_count
    /\ UNCHANGED <<fs, run, returned, poem_folders, folder_idx, metadata_files, total_files,
                   processed, failures, skipped, cur, image_prompt,
                   calls, only429, hist>>

\* lines 184-197: a response with candidates
HandleResponse ==
    /\ pc = "reply"
    /\ reply.kind = "response"
    /\ ReturnFromClient(ScanParts(reply.parts),
                        IF ScanParts(reply.parts) = None THEN "no_image" ELSE "image")
    /\ UNCHANGED <<fs, run, returned, poem_folders, folder_idx, metadata_files, total_files,
                   processed, failures, skipped, cur, image_prompt,
                   retry_count, calls, only429, hist>>

\* lines 199-220
HandleError ==
    /\ pc = "reply"
    /\ reply.kind \in {"error", "nocandidates"}
    /\ \/ /\ ErrorClass(Caught(reply)) = "rate_limit"
          /\ RetryOrGiveUp("rate_limit")
       \/ /\ ErrorClass(Caught(reply)) = "server"
          /\ RetryOrGiveUp("server")
       \/ /\ ErrorClass(Caught(reply)) = "other"
          /\ retry_count' = retry_count
          /\ ReturnFromClient(None, "other")
    /\ only429' = (only429 /\ "429" \in Caught(reply))
    /\ UNCHANGED <<fs, run, returned, poem_folders, folder_idx, metadata_files, total_files,
                   processed, failures, skipped, cur, image_prompt, calls, hist>>

(***************************************************************************)
(* process_metadata_files: the result of the client, lines 275-297.  A     *)
(* write may raise: open() before the file is created, or write() after    *)
(* it was.                                                                 *)
(***************************************************************************)
\* the client's frame is gone once line 275 has its result
ClientGone ==
    /\ retry_count' = 0
    /\ calls' = 0

\* lines 283-285
NoResult ==
    /\ pc = "got"
    /\ ~Truthy(image_data)
    /\ failures' = failures + 1
    /\ pc' = "count"
    /\ ClientGone
    /\ UNCHANGED <<fs, run, returned, poem_folders, folder_idx, metadata_files, total_files,
                   processed, skipped, cur, image_prompt, image_data,
                   reply, only429, outcome, slept, hist>>

\* lines 277-278, and lines 289-291 when they raise
WriteImage ==
    /\ pc = "got"
    /\ Truthy(image_data)
    /\ \/ /\ out' = [out EXCEPT ![output_image_path(cur)] = image_data]
          /\ created' = created \cup {output_image_path(cur)}
          /\ pc' = "mark"
          /\ UNCHANGED <<failures, outcome>>
       \/ /\ UNCHANGED <<out, created>>
          /\ failures' = failures + 1
          /\ outcome' = "write_error"
          /\ pc' = "count"
       \/ /\ out' = [out EXCEPT ![output_image_path(cur)] = "partial"]
          /\ created' = created \cup {output_image_path(cur)}
          /\ failures' = failures + 1
          /\ outcome' = "write_error"
          /\ pc' = "count"
    /\ ClientGone
    /\ UNCHANGED <<dirs, meta, sidecar, run, returned, poem_folders, folder_idx, metadata_files,
                   total_files, processed, skipped, cur, image_prompt, image_data,
                   reply, only429, slept, out_before, results>>

\* line 281, and lines 289-291 when it raises
MarkProcessed ==
    /\ pc = "mark"
    /\ \/ /\ sidecar' = mark_prompt_processed(sidecar, image_prompt,
                                              output_image_path(cur))
          /\ outcome' = "saved"
          /\ UNCHANGED failures
       \/ /\ UNCHANGED sidecar
          /\ failures' = failures + 1
          /\ outcome' = "mark_error"
       \/ /\ sidecar' = [sidecar EXCEPT ![checksum_file(output_image_path(cur))] =
                                            SidecarWith(<<>>)]
          /\ failures' = failures + 1
          /\ outcome' = "mark_error"
    /\ pc' = "count"
    /\ UNCHANGED <<dirs, meta, out, run, returned, poem_folders, folder_idx, metadata_files,
                   total_files, processed, skipped, cur, image_prompt, image_data,
                   retry_count, reply, calls, only429, slept, hist>>

\* how a file whose iteration ended with outcome o goes on record
ResultOf(o) ==
    IF o \in {"no_image", "rate_limit", "server", "other", "exhausted"}
    THEN "no_result" ELSE o

\* lines 293-294
Count ==
    /\ pc = "count"
    /\ processed' = processed + 1
    /\ Record(ResultOf(outcome))
    /\ pc' = "pause"
    /\ UNCHANGED <<fs, run, returned, poem_folders, folder_idx, metadata_files, total_files,
                   failures, skipped, cur, image_prompt, image_data, client,
                   out_before, created>>

\* a pause drawn from below the range
PauseBrief ==
    /\ pc = "pause"
    /\ \E d \in 0 .. PauseLow : slept' = d * 5
    /\ pc' = "files"
    /\ cur' = NoFile
    /\ image_prompt' = ""
    /\ image_data' = None
    /\ retry_count' = 0
    /\ reply' = NoReply
    /\ calls' = 0
    /\ only429' = TRUE
    /\ outcome' = "none"
    /\ UNCHANGED <<fs, run, returned, poem_folders, folder_idx, metadata_files, total_files,
                   processed, failures, skipped, hist>>

\* line 297; the locals of this iteration are dead from here on
Pause ==
    /\ pc = "pause"
    /\ \E d \in PauseLow .. PauseHigh : slept' = d * 10
    /\ pc' = "files"
    /\ cur' = NoFile
    /\ image_prompt' = ""
    /\ image_data' = None
    /\ retry_count' = 0
    /\ reply' = NoReply
    /\ calls' = 0
    /\ only429' = TRUE
    /\ outcome' = "none"
    /\ UNCHANGED <<fs, run, returned, poem_folders, folder_idx, metadata_files, total_files,
                   processed, failures, skipped, hist>>

\* the positions between the skip test of a file (line 255) and the count of
\* it (line 293)
MidFile == {"read", "loop", "call", "reply", "got", "mark", "count"}

\* the process is killed from outside, wherever it is.  Its memory is gone;
\* the files stay as the last system call left them: killed inside lines
\* 277-278 the output may be there, empty or in part, and killed inside line
\* 92-93 the sidecar may be there and empty.  cur keeps the file that was
\* in hand, for the properties
Kill ==
    /\ pc \notin {"done", "killed"}
    /\ \/ UNCHANGED <<out, sidecar>>
       \/ /\ pc = "got"
          /\ Truthy(image_data)
          /\ out' = [out EXCEPT ![output_image_path(cur)] = "partial"]
          /\ UNCHANGED sidecar
       \/ /\ pc = "mark"
          /\ sidecar' = [sidecar EXCEPT ![checksum_file(output_image_path(cur))] =
                                            SidecarWith(<<>>)]
          /\ UNCHANGED out
    /\ pc' = "killed"
    /\ cur' = IF pc \in MidFile THEN cur ELSE NoFile
    /\ poem_folders' = <<>>
    /\ folder_idx' = 0
    /\ metadata_files' = {}
    /\ total_files' = 0
    /\ processed' = 0
    /\ failures' = 0
    /\ skipped' = 0
    /\ image_prompt' = ""
    /\ image_data' = None
    /\ retry_count' = 0
    /\ reply' = NoReply
    /\ calls' = 0
    /\ only429' = TRUE
    /\ outcome' = "none"
    /\ slept' = 0
    /\ created' = {}
    /\ results' = NoResults
    /\ UNCHANGED <<dirs, meta, run, returned, out_before>>

\* the script is run again over the file system the last run left
NextRun ==
    /\ pc \in {"done", "killed"}
    /\ run < MaxRuns
    /\ run' = run + 1
    /\ out_before' = out
    /\ pc' = "start"
    /\ poem_folders' = <<>>
    /\ folder_idx' = 0
    /\ metadata_files' = {}
    /\ total_files' = 0
    /\ processed' = 0
    /\ failures' = 0
    /\ skipped' = 0
    /\ cur' = NoFile
    /\ slept' = 0
    /\ created' = {}
    /\ results' = NoResults
    /\ UNCHANGED <<fs, returned, image_prompt, image_data, retry_count, reply,
                   calls, only429, outcome>>

\* the steps of one run of process_metadata_files
Step ==
    \/ Discover
    \/ NextFolder
    \/ Return
    \/ NextFile
    \/ FolderDone
    \/ SkipExisting
    \/ NotExisting
    \/ ReadMetadata
    \/ LoopTest
    \/ RemoteCall
    \/ HandleResponse
    \/ HandleError
    \/ NoResult
    \/ WriteImage
    \/ MarkProcessed
    \/ Count
    \/ Pause

\* the script, run to its end each time
Next ==
    \/ Step
    \/ NextRun

Spec == Init /\ [][Next]_vars

\* the script, which may be killed at any point of a run
NextOrKill ==
    \/ Next
    \/ Kill

SpecKill == Init /\ [][NextOrKill]_vars

(***************************************************************************)
(* What the properties speak of.                                           *)
(***************************************************************************)
ClientPcs == {"loop", "call", "reply"}
ImageBytes == {Reencode(d) : d \in ImageData}

\* the buckets of the error classifier as the specification lists them
RateLimitPhrases ==
    {"rate limit", "quota", "429", "too many requests", "resource exhausted"}
ServerPhrases == {"internal server error", "503"}
SpecClass(message) ==
    IF \E p \in message : Lower(p) \in RateLimitPhrases THEN "rate_limit"
    ELSE IF \E p \in message : Lower(p) \in ServerPhrases THEN "server"
    ELSE "other"

\* the reply at hand is a raised error
ErrorAtHand == pc = "reply" /\ reply.kind # "response"

\* the metadata files of the source directories of this run
DiscoveredFiles ==
    {f \in DOMAIN meta : \E i \in DOMAIN poem_folders : poem_folders[i] = f[1]}

FailureResults == {"noprompt", "invalid", "no_result", "write_error", "mark_error"}
FailureOutcomes == FailureResults
                     \cup {"no_image", "rate_limit", "server", "other", "exhausted"}
Failed == {f \in DOMAIN results : results[f] \in FailureResults}
Skipped == {f \in DOMAIN results : results[f] = "skipped"}

(***************************************************************************)
(* C1: generate_image_from_prompt never raises to its caller: from any     *)
(* position inside the client, whatever the service answers, control stays *)
(* in the client or returns to line 273 with image bytes or None, and no   *)
(* failure is counted on the way; the retryable error that brings the      *)
(* counter to MAX_RETRIES returns None.                                    *)
(***************************************************************************)
C1_NeverRaises ==
    [][/\ pc \in ClientPcs => pc' \in ClientPcs \cup {"got"}
       /\ pc \in ClientPcs /\ pc' = "got" =>
             /\ image_data' \in ImageBytes \cup {None}
             /\ failures' = failures
       /\ ErrorAtHand /\ SpecClass(Caught(reply)) # "other"
                      /\ retry_count + 1 = MAX_RETRIES =>
             pc' = "got" /\ image_data' = None]_vars

\* the fifth rate-limit error in a row has made the client return None
C1_Witness ==
    /\ pc = "got"
    /\ outcome = "rate_limit"
    /\ calls = MAX_RETRIES
    /\ image_data = None

(***************************************************************************)
(* C2: one call of the client issues at most MAX_RETRIES remote calls:     *)
(* every retryable error, of either class, adds one to the one counter, so *)
(* that the counter is the number of calls that failed; a call is issued   *)
(* only with the counter below MAX_RETRIES, and the client that gave up on *)
(* retryable errors has made MAX_RETRIES calls and returns None.           *)
(***************************************************************************)
C2_AtMostMaxRetriesCalls ==
    /\ calls <= MAX_RETRIES
    /\ pc \in {"loop", "call"} => calls = retry_count
    /\ pc = "call" => retry_count < MAX_RETRIES
    /\ pc = "reply" => calls = retry_count + 1 /\ retry_count < MAX_RETRIES
    /\ pc = "got" /\ outcome \in {"rate_limit", "server"} =>
          calls = MAX_RETRIES /\ retry_count = MAX_RETRIES /\ image_data = None
    /\ pc = "got" /\ outcome \in {"image", "no_image", "other"} =>
          calls = retry_count + 1

\* four errors holding "429", then a server error as the answer to the
\* fifth call
C2_Witness ==
    /\ pc = "reply"
    /\ calls = MAX_RETRIES
    /\ only429
    /\ reply.kind = "error"
    /\ SpecClass(reply.message) = "server"

(***************************************************************************)
(* C3: an error of neither retryable class makes the client return None    *)
(* at once: the counter is not incremented and no further call is issued,  *)
(* however many retryable errors came before.                              *)
(***************************************************************************)
C3_OtherErrorReturnsAtOnce ==
    [][ErrorAtHand /\ SpecClass(Caught(reply)) = "other" =>
          /\ pc' = "got"
          /\ image_data' = None
          /\ retry_count' = retry_count
          /\ calls' = calls]_vars

\* "invalid argument" after two retryable errors: three calls, counter at 2
C3_Witness ==
    /\ pc = "got"
    /\ outcome = "other"
    /\ calls = 3
    /\ retry_count = 2
    /\ image_data = None

(***************************************************************************)
(* C4: every sleep before a remote call is longer than the sleep before    *)
(* the call it retries, for both ends of the jitter range; errors holding  *)
(* "429" are retried until MAX_RETRIES calls are made, then the client     *)
(* returns None and the driver records the file as failed and writes no    *)
(* output.                                                                 *)
(***************************************************************************)
C4_BackoffDelaysIncrease ==
    [][/\ pc = "loop" /\ pc' = "call" => slept' > slept
       /\ pc = "reply" /\ reply.kind = "error" /\ "429" \in reply.message =>
             IF calls < MAX_RETRIES
             THEN pc' = "loop" /\ retry_count' = calls
             ELSE pc' = "got" /\ image_data' = None /\ outcome' = "rate_limit"
       /\ pc = "got" /\ outcome = "rate_limit" =>
             failures' = failures + 1 /\ pc' = "count" /\ out' = out
       /\ pc = "count" /\ outcome = "rate_limit" =>
             /\ processed' = processed + 1
             /\ cur \in DOMAIN results' /\ results'[cur] = "no_result"
             /\ out'[cur] = Absent]_vars

\* every call of this file failed with "429"; the driver has counted it failed
C4_Witness ==
    /\ pc = "pause"
    /\ outcome = "rate_limit"
    /\ only429
    /\ failures = 1
    /\ cur \in DOMAIN results /\ results[cur] = "no_result"

\* the discovered files whose output is there when this run starts
HadOutput == {f \in DiscoveredFiles : out_before[f] # Absent}

(***************************************************************************)
(* C5 as stated: whatever happened in the first run, the second run        *)
(* generates no image and skips every discovered metadata file.            *)
(***************************************************************************)
C5_Original ==
    run = 2 /\ pc = "done" =>
        /\ created = {}
        /\ skipped = Cardinality(DiscoveredFiles)

(***************************************************************************)
(* C5: a later run, with no output removed since the run before, skips     *)
(* exactly the discovered files whose output is there when it starts and   *)
(* leaves these outputs as they are; when the run before left an output    *)
(* for every discovered file, it generates no image, counts no failure     *)
(* and skips as many files as were discovered.                             *)
(***************************************************************************)
C5_SecondRunSkipsWhatIsThere ==
    run >= 2 /\ pc = "done" =>
        /\ Skipped = HadOutput
        /\ skipped = Cardinality(HadOutput)
        /\ \A f \in HadOutput : out[f] = out_before[f] /\ f \notin created
        /\ HadOutput = DiscoveredFiles =>
              /\ created = {}
              /\ out = out_before
              /\ skipped = total_files
              /\ processed = total_files
              /\ failures = 0

\* the second run is over: it skipped both files, one of them generated by
\* the first run
C5_Witness ==
    /\ run = 2
    /\ pc = "done"
    /\ HadOutput = DiscoveredFiles
    /\ skipped = 2
    /\ \E f \in DiscoveredFiles : out[f] \in ImageBytes

(***************************************************************************)
(* C6: one directory with three metadata files, one without its prompt     *)
(* field, one whose output exists and one fresh one for which the service  *)
(* returns an image that is then saved: in whatever order the files are    *)
(* visited, the run returns processed=3, skipped=1, failed=1, and the one  *)
(* output it creates is that of the fresh file.                            *)
(***************************************************************************)
C6_ThreeFiles ==
    \A a, b, c \in DOMAIN meta :
        /\ run = 1
        /\ pc = "done"
        /\ Len(poem_folders) = 1
        /\ DiscoveredFiles = {a, b, c}
        /\ meta[a].kind = "noprompt" /\ out_before[a] = Absent
        /\ out_before[b] # Absent
        /\ meta[c].kind = "prompt" /\ out_before[c] = Absent
        /\ c \in DOMAIN results /\ results[c] = "saved"
        => /\ processed = 3
           /\ skipped = 1
           /\ failures = 1
           /\ created = {output_image_path(c)}
           /\ out[output_image_path(c)] \in ImageBytes
           /\ out[a] = Absent
           /\ out[b] = out_before[b]

\* the run over the three files is over
C6_Witness ==
    /\ run = 1
    /\ pc = "done"
    /\ Len(poem_folders) = 1
    /\ Cardinality(DiscoveredFiles) = 3
    /\ \E a, b, c \in DOMAIN results :
          /\ results[a] = "noprompt"
          /\ results[b] = "skipped"
          /\ results[c] = "saved"
    /\ processed = 3

(***************************************************************************)
(* C7: every file that fails, whatever the class of its failure, adds one  *)
(* to failures and one to processed, and the batch goes on: failures is    *)
(* the number of files that failed, processed the number of files the run  *)
(* is through with, and at return every discovered metadata file of every  *)
(* source directory has been visited and counted.                          *)
(***************************************************************************)
C7_FailuresCountedBatchGoesOn ==
    /\ failures = Cardinality(Failed)
                    + (IF pc = "count" /\ outcome \in FailureOutcomes THEN 1 ELSE 0)
    /\ processed = Cardinality(DOMAIN results)
    /\ pc \in {"count", "pause"} /\ outcome \in FailureOutcomes => failures >= 1
    /\ pc = "pause" /\ outcome \in FailureOutcomes => cur \in Failed
    /\ pc = "done" =>
          /\ DOMAIN results = DiscoveredFiles
          /\ processed = total_files
          /\ processed = Cardinality(DiscoveredFiles)

\* two folders, a failure of a different class in each
C7_Witness ==
    /\ pc = "done"
    /\ failures = 2
    /\ processed = 2
    /\ \E f, g \in Failed :
          /\ f[1] # g[1]
          /\ results[f] = "invalid"
          /\ results[g] = "write_error"

(***************************************************************************)
(* C8: the skip decision reads the existence of the output path and        *)
(* nothing else.  If it exists the file is counted skipped and processed   *)
(* and the driver moves on: no metadata read, no remote call, no file      *)
(* touched, whatever the sidecar.  If it does not exist the driver reads   *)
(* the metadata, whatever the sidecar.                                     *)
(***************************************************************************)
C8_SkipOnOutputOnly ==
    [][pc = "check" =>
          IF out[cur] # Absent
          THEN /\ skipped' = skipped + 1
               /\ processed' = processed + 1
               /\ failures' = failures
               /\ pc' = "files"
               /\ calls' = calls
               /\ UNCHANGED <<meta, out, sidecar>>
               /\ cur \in DOMAIN results' /\ results'[cur] = "skipped"
          ELSE /\ pc' = "read"
               /\ skipped' = skipped
               /\ processed' = processed
               /\ results' = results]_vars

\* the sidecar of name a matches the prompt of the file at hand, which has
\* no output and is read; it did not match that of a file with an output,
\* which was skipped
C8_Witness ==
    /\ pc = "read"
    /\ out[cur] = Absent
    /\ meta[cur].kind = "prompt"
    /\ is_prompt_processed(sidecar, meta[cur].prompt, output_image_path(cur))
    /\ \E f \in Skipped :
          /\ sidecar[checksum_file(f)].exists
          /\ ~is_prompt_processed(sidecar, meta[f].prompt, output_image_path(f))

(***************************************************************************)
(* C9: when the client returns image bytes, the driver writes them to the  *)
(* output path, then records the checksum of the prompt under the name of  *)
(* the output path, and, neither write having raised, counts the file as   *)
(* processed and neither failed nor skipped; is_prompt_processed is then   *)
(* true of the prompt and the output path.                                 *)
(***************************************************************************)
C9_SuccessPersistsThenMarks ==
    [][/\ pc = "got" /\ image_data \in ImageBytes =>
             \/ /\ pc' = "mark"
                /\ out'[output_image_path(cur)] = image_data
                /\ UNCHANGED <<sidecar, failures, skipped, processed>>
             \/ pc' = "count" /\ outcome' = "write_error"
       /\ pc = "mark" =>
             /\ out[output_image_path(cur)] = image_data
             /\ out' = out
             /\ \/ /\ outcome' = "saved"
                   /\ is_prompt_processed(sidecar', image_prompt,
                                          output_image_path(cur))
                   /\ UNCHANGED <<failures, skipped, processed>>
                \/ outcome' = "mark_error"
       /\ pc = "count" /\ outcome = "saved" =>
             /\ out[output_image_path(cur)] = image_data
             /\ image_data \in ImageBytes
             /\ is_prompt_processed(sidecar, image_prompt, output_image_path(cur))
             /\ processed' = processed + 1
             /\ UNCHANGED <<failures, skipped, out, sidecar>>
             /\ results'[cur] = "saved"]_vars

\* the first file of the run is saved, marked and counted
C9_Witness ==
    /\ pc = "pause"
    /\ outcome = "saved"
    /\ results[cur] = "saved"
    /\ out[output_image_path(cur)] = image_data
    /\ processed = 1
    /\ failures = 0
    /\ skipped = 0

(***************************************************************************)
(* C10: a response none of whose parts carries inline data makes the       *)
(* client return None at once, with no further call; the driver counts the *)
(* file failed and processed and writes neither output nor sidecar.        *)
(***************************************************************************)
C10_NoImageIsAFailure ==
    [][/\ /\ pc = "reply"
          /\ reply.kind = "response"
          /\ \A i \in DOMAIN reply.parts : reply.parts[i] = "text"
          => /\ pc' = "got"
             /\ image_data' = None
             /\ calls' = calls
             /\ outcome' = "no_image"
       /\ pc = "got" /\ outcome = "no_image" =>
             /\ pc' = "count"
             /\ failures' = failures + 1
             /\ UNCHANGED <<out, sidecar, outcome>>
       /\ pc = "count" /\ outcome = "no_image" =>
             /\ processed' = processed + 1
             /\ results'[cur] = "no_result"
             /\ UNCHANGED <<out, sidecar, failures>>]_vars

\* the answer for the first file of the run held no image: the file is
\* counted failed, and there is neither output nor sidecar
C10_Witness ==
    /\ pc = "pause"
    /\ outcome = "no_image"
    /\ results[cur] = "no_result"
    /\ out[output_image_path(cur)] = Absent
    /\ ~sidecar[checksum_file(output_image_path(cur))].exists
    /\ failures = 1
    /\ processed = 1

(***************************************************************************)
(* C11: a kill while a file is in hand, after its skip test and before it  *)
(* is counted, leaves the output of that file absent, so that a later run  *)
(* does not skip the file.                                                 *)
(***************************************************************************)
C11_KillLeavesOutputAbsent ==
    pc = "killed" /\ cur # NoFile => out[output_image_path(cur)] = Absent

\* the outputs this run generated, sidecar and all
Saved == {f \in DOMAIN results : results[f] = "saved"}

(***************************************************************************)
(* C12: one checksum record per output image: when a run is over, every    *)
(* output this run generated and marked has its own record, so that        *)
(* is_prompt_processed holds of the prompt that produced it and its path,  *)
(* also when outputs of different source directories share a base name.    *)
(***************************************************************************)
C12_OneRecordPerOutput ==
    pc = "done" =>
        \A f \in Saved :
            is_prompt_processed(sidecar, meta[f].prompt, output_image_path(f))

(***************************************************************************)
(* The checksum store on its own: is_prompt_processed and                  *)
(* mark_prompt_processed called in any order, with any prompt and output   *)
(* path, over whatever sidecars and outputs are there.                     *)
(***************************************************************************)
\* prompts to call with: p3 and p4 have the same digest
PromptTexts == Prompts \cup {"p3", "p4"}

\* output paths to call with: two of one base name, one of another
StorePaths == {<<CanonicalFolder, "a">>, <<NumberedFolders[1], "a">>,
               <<CanonicalFolder, "b">>}

\* what a sidecar may hold before the first call
StoreSidecars == {NoSidecar, SidecarWith(<<>>),
                  SidecarWith(<<get_prompt_checksum("p1"), "\n">>),
                  SidecarWith(<<"\n", get_prompt_checksum("p3")>>)}

\* no call of is_prompt_processed yet
NoAnswer == [prompt |-> "", path |-> NoFile, answer |-> FALSE]

InitStore ==
    /\ dirs = {}
    /\ meta = [f \in {} |-> [kind |-> "invalid", prompt |-> ""]]
    /\ \E there \in BOOLEAN :
          out = [f \in Slots |-> IF there THEN "old" ELSE Absent]
    /\ sidecar \in [Bases -> StoreSidecars]
    /\ run = 1
    /\ returned = NoAnswer
    /\ out_before = out
    /\ Fresh

\* lines 87-93, called with prompt p and output path o
StoreMark ==
    /\ \E p \in PromptTexts, o \in StorePaths :
          /\ sidecar' = mark_prompt_processed(sidecar, p, o)
          /\ image_prompt' = p
          /\ cur' = o
    /\ pc' = "marked"
    /\ UNCHANGED <<dirs, meta, out, run, returned, poem_folders, folder_idx,
                   metadata_files, total_files, processed, failures, skipped,
                   image_data, client, hist>>

\* lines 71-85, called with prompt q and output path o
StoreAsk ==
    /\ \E q \in PromptTexts, o \in StorePaths :
          returned' = [prompt |-> q, path |-> o,
                       answer |-> is_prompt_processed(sidecar, q, o)]
    /\ pc' = "asked"
    /\ UNCHANGED <<fs, run, driver, client, hist>>

NextStore ==
    \/ StoreMark
    \/ StoreAsk

SpecStore == InitStore /\ [][NextStore]_vars

SameFingerprint(p, q) == get_prompt_checksum(p) = get_prompt_checksum(q)

(***************************************************************************)
(* C13: is_prompt_processed(q, o) is false when there is no sidecar of o's *)
(* base name, whether the output o is there or not, and it changes no      *)
(* file.  mark_prompt_processed(p, o) replaces the record of o's base name *)
(* whatever it held and touches no other; from then on, until the next     *)
(* mark, is_prompt_processed(q, o') for a path o' of that base name is     *)
(* true exactly when q has the digest of p.                                *)
(***************************************************************************)
C13_StoreRoundTrip ==
    [][/\ pc' = "asked" =>
             /\ UNCHANGED <<sidecar, out>>
             /\ ~sidecar[returned'.path[2]].exists => ~returned'.answer
             /\ pc \in {"marked", "asked"} /\ returned'.path[2] = cur[2] =>
                   (returned'.answer <=> SameFingerprint(returned'.prompt,
                                                         image_prompt))
       /\ pc' = "marked" =>
             /\ \A q \in PromptTexts :
                   is_prompt_processed(sidecar', q, cur')
                       <=> SameFingerprint(q, image_prompt')
             /\ \A b \in Bases \ {cur'[2]} : sidecar'[b] = sidecar[b]
             /\ out' = out]_vars

\* a path was marked with p3; asked since for p4, of the same digest, and
\* a path of the same base name in another folder, the store answers yes,
\* though that output is not there
C13_Witness ==
    /\ pc = "asked"
    /\ image_prompt = "p3"
    /\ returned.prompt = "p4"
    /\ returned.path # cur /\ returned.path[2] = cur[2]
    /\ returned.answer
    /\ out[returned.path] = Absent

\* the source directories the discovery is to find
Sources ==
    IF CanonicalFolder \in dirs
    THEN {CanonicalFolder}
    ELSE {d \in dirs : \E i \in DOMAIN NumberedFolders : NumberedFolders[i] = d}

(***************************************************************************)
(* C14: with the directory 'poems' there, it is the only source directory  *)
(* and the numbered ones are ignored; without it, the source directories   *)
(* are exactly the numbered directories that exist; no file outside them   *)
(* is ever in hand.  With no source directory the function returns at      *)
(* once with all counts zero: no file read or written, no remote call, no  *)
(* sleep.                                                                  *)
(***************************************************************************)
C14_Discovery ==
    [][/\ pc = "start" =>
             IF Sources = {}
             THEN /\ pc' = "done"
                  /\ processed' = 0 /\ skipped' = 0 /\ failures' = 0
                  /\ calls' = 0 /\ slept' = 0
                  /\ results' = NoResults /\ created' = {}
                  /\ UNCHANGED fs
             ELSE /\ pc' = "folders"
                  /\ {poem_folders'[i] : i \in DOMAIN poem_folders'} = Sources
                  /\ Len(poem_folders') = Cardinality(Sources)
                  /\ total_files' = Cardinality({f \in DOMAIN meta : f[1] \in Sources})
       /\ pc \notin {"start", "done"} => poem_folders' = poem_folders
       /\ cur' # NoFile => cur'[1] \in Sources
       /\ \A f \in DOMAIN results' \cup created' : f[1] \in Sources]_vars

\* 'poems' and 1/poems both hold a metadata file: the run is over, and
\* only the file of 'poems' was visited
C14_Witness ==
    /\ pc = "done"
    /\ CanonicalFolder \in dirs
    /\ Glob(NumberedFolders[1]) # {}
    /\ DOMAIN results = Glob(CanonicalFolder)
    /\ processed = 1
    /\ total_files = 1

\* the delay of the backoff policy for attempt count k, without jitter, as
\* the specification gives it
PolicyDelay(k) ==
    IF INITIAL_RETRY_DELAY * 2^k < MAX_RETRY_DELAY
    THEN INITIAL_RETRY_DELAY * 2^k ELSE MAX_RETRY_DELAY

(***************************************************************************)
(* C15: every remote call comes right after exactly one sleep: the client  *)
(* reaches the call only from the loop test, through a sleep of            *)
(* BASE_DELAY_BETWEEN_CALLS before the first attempt and of the backoff    *)
(* policy's delay for k, within its jitter, before the attempt that        *)
(* follows the k-th retryable failure; the call is the next step.          *)
(***************************************************************************)
C15_OneSleepBeforeEachCall ==
    [][/\ pc' = "call" =>
             /\ pc = "loop"
             /\ retry_count' = retry_count
             /\ retry_count = calls
             /\ IF retry_count = 0
                THEN slept' = BASE_DELAY_BETWEEN_CALLS * 10
                ELSE /\ JitterLow * PolicyDelay(retry_count) <= slept'
                     /\ slept' <= JitterHigh * PolicyDelay(retry_count)
       /\ pc = "call" =>
             /\ pc' = "reply"
             /\ calls' = calls + 1
             /\ slept' = slept
       /\ calls' = calls + 1 => pc = "call" /\ slept > 0]_vars

\* the third call is made, after a sleep of the policy's delay for k = 2
C15_Witness ==
    /\ pc = "reply"
    /\ calls = 3
    /\ retry_count = 2
    /\ slept \in {JitterLow * PolicyDelay(2), JitterHigh * PolicyDelay(2)}

\* this step puts the file in hand on record
GoesOnRecord == cur # NoFile /\ cur \notin DOMAIN results /\ cur \in DOMAIN results'

(***************************************************************************)
(* C16 as stated: after each file visited, whatever its outcome, the       *)
(* driver sleeps one pause of 1 to 3 seconds before the next file.         *)
(***************************************************************************)
C16_Original ==
    [][/\ GoesOnRecord => pc' = "pause"
       /\ pc = "pause" =>
             /\ pc' = "files"
             /\ PauseLow * 10 <= slept' /\ slept' <= PauseHigh * 10]_vars

(***************************************************************************)
(* C16: after each file that is not skipped, failed or generated, the      *)
(* driver sleeps one pause of 1 to 3 seconds and only then goes to the     *)
(* next file; after a skipped file it goes to the next file with no sleep. *)
(***************************************************************************)
C16_PauseUnlessSkipped ==
    [][/\ GoesOnRecord /\ results'[cur] # "skipped" => pc' = "pause"
       /\ pc = "pause" =>
             /\ pc' = "files"
             /\ PauseLow * 10 <= slept' /\ slept' <= PauseHigh * 10
       /\ GoesOnRecord /\ results'[cur] = "skipped" =>
             /\ pc = "check" /\ pc' = "files"
             /\ slept = 0 /\ slept' = 0
       /\ pc' = "check" => pc = "files"]_vars

\* a folder with a file that was skipped and a file that was generated,
\* the pause of 3 seconds after the latter just slept
C16_Witness ==
    /\ pc = "files"
    /\ slept = PauseHigh * 10
    /\ Skipped # {}
    /\ Saved # {}

\* the places of the parts of the response at hand that carry inline data,
\* and of those among them whose data is an image that can be decoded
InlineAt == {i \in DOMAIN reply.parts : reply.parts[i] # "text"}
ImageAt == {i \in InlineAt : reply.parts[i] \in ImageData}
First(places) == CHOOSE i \in places : \A j \in places : i <= j

\* a response with at least one part that carries inline data is at hand
InlineResponseAtHand == pc = "reply" /\ reply.kind = "response" /\ InlineAt # {}

(***************************************************************************)
(* C17 as stated: the client returns the bytes obtained from the first     *)
(* part that carries inline data; no later part determines the result.     *)
(***************************************************************************)
C17_Original ==
    [][InlineResponseAtHand =>
          /\ pc' = "got"
          /\ image_data' = IF First(InlineAt) \in ImageAt
                           THEN Reencode(reply.parts[First(InlineAt)])
                           ELSE None]_vars

(***************************************************************************)
(* C17: the client returns the re-encoded bytes of the first part, in      *)
(* response order, whose inline data can be decoded as an image: a part    *)
(* whose data cannot be decoded is passed over, parts after the first      *)
(* decodable one never determine the result, and with no decodable part    *)
(* the client returns None.                                                *)
(***************************************************************************)
C17_FirstDecodablePart ==
    [][InlineResponseAtHand =>
          /\ pc' = "got"
          /\ calls' = calls
          /\ image_data' = IF ImageAt = {}
                           THEN None
                           ELSE Reencode(reply.parts[First(ImageAt)])]_vars

\* the second call was answered with a response that held an image part:
\* the client has returned its re-encoded bytes
C17_Witness ==
    /\ pc = "got"
    /\ outcome = "image"
    /\ image_data = Reencode("img1")
    /\ calls = 2

(***************************************************************************)
(* The backoff policy on its own: exponential_backoff called with any      *)
(* attempt number up to MaxAttempt and any jitter of the range, in tenths. *)
(***************************************************************************)
InitBackoff ==
    /\ dirs = {}
    /\ meta = [f \in {} |-> [kind |-> "invalid", prompt |-> ""]]
    /\ out = [f \in Slots |-> Absent]
    /\ sidecar = [b \in Bases |-> NoSidecar]
    /\ run = 1
    /\ returned = 0
    /\ out_before = out
    /\ Fresh

\* lines 95-100, called with retry_count n; random.uniform gives the jitter
Backoff ==
    /\ \E n \in 0 .. MaxAttempt, jitter \in JitterLow .. JitterHigh :
          /\ retry_count' = n
          /\ returned' = exponential_backoff(n, jitter)
    /\ UNCHANGED <<fs, run, pc, driver, reply, calls, only429, outcome, slept, hist>>

NextBackoff == Backoff

SpecBackoff == InitBackoff /\ [][NextBackoff]_vars

(***************************************************************************)
(* C18: for every attempt number n >= 0 the delay before jitter is         *)
(* min(MAX_RETRY_DELAY, INITIAL_RETRY_DELAY * 2^n), with                   *)
(* INITIAL_RETRY_DELAY = 2 and MAX_RETRY_DELAY = 60, and the delay         *)
(* returned lies between 0.8 and 1.2 times that value; the call changes    *)
(* no file and no counter.                                                 *)
(***************************************************************************)
C18_BackoffFormula ==
    [][/\ INITIAL_RETRY_DELAY = 2 /\ MAX_RETRY_DELAY = 60
       /\ UnjitteredDelay(retry_count') = PolicyDelay(retry_count')
       /\ JitterLow * PolicyDelay(retry_count') <= returned'
       /\ returned' <= JitterHigh * PolicyDelay(retry_count')
       /\ UNCHANGED <<fs, pc, driver, slept, calls>>]_vars

\* attempt 5 is the first the ceiling applies to: 0.8 times 60 seconds
C18_Witness ==
    /\ retry_count = 5
    /\ returned = JitterLow * MAX_RETRY_DELAY
    /\ returned < JitterLow * INITIAL_RETRY_DELAY * 2^5

(***************************************************************************)
(* C19: when a run is over, a file it counted as failed has no output, so  *)
(* that the next run does not skip it: an output is there for a            *)
(* discovered file only if the run skipped the file or generated it        *)
(* with success, also when writing the output or the sidecar raised.       *)
(***************************************************************************)
C19_FailedLeavesNoOutput ==
    pc = "done" =>
        /\ \A f \in Failed : out[output_image_path(f)] = Absent
        /\ \A f \in DiscoveredFiles :
              out[output_image_path(f)] # Absent => f \in Skipped \cup Saved

(***************************************************************************)
(* The script with its one thread of control running on: a step of the     *)
(* run that can be taken is taken (a sleep ends, the remote call returns   *)
(* or raises).                                                             *)
(***************************************************************************)
SpecLive == Init /\ [][Next]_vars /\ WF_vars(Step)

(***************************************************************************)
(* C20: process_metadata_files terminates, whatever the metadata files and *)
(* whatever the service answers, a retryable error to every call           *)
(* included: a run that starts returns, with every discovered file on      *)
(* record; no file is taken in hand twice, and a visit issues at most      *)
(* MAX_RETRIES remote calls, each after one sleep that is finite.          *)
(***************************************************************************)
C20_Terminates ==
    /\ (pc = "start") ~> (pc = "done" /\ DOMAIN results = DiscoveredFiles
                                      /\ processed = total_files)
    /\ [][/\ pc' = "check" => cur' \notin DOMAIN results
          /\ calls' <= MAX_RETRIES
          /\ slept' <= JitterHigh * MAX_RETRY_DELAY]_vars

\* the service failed every call for both files: the run has returned all
\* the same, with both on record as failed
C20_Witness ==
    /\ pc = "done"
    /\ total_files = 2
    /\ processed = 2
    /\ failures = 2
    /\ \A f \in DiscoveredFiles : f \in DOMAIN results /\ results[f] = "no_result"

====
